---- MODULE Spec2Model ----
(***************************************************************************)
(* Weather retrieval and history engine of weathery-app.                   *)
(*                                                                         *)
(* Two programs carry their own copy of the engine: the console program    *)
(* (weather_app.py, class WeatherApp) and the window program               *)
(* (weather_app_gui.py, class WeatherAppGUI).  The model keeps the state   *)
(* of each engine in functions indexed by the front end, and translates    *)
(* get_weather, _process_weather_data, the constructors and the two main   *)
(* functions statement by statement.  The remote service is the            *)
(* environment: every fetch draws its answer from the set Services.        *)
(***************************************************************************)
EXTENDS Integers, Sequences, FiniteSets, TLC

VARIABLES
    api_key,          \* os.environ["WEATHER_API_KEY"], "" when unset
    phase,            \* per program: where main() is
    instance,         \* per program: the engine object exists
    ui_built,         \* window program: setup_ui has run (buttons and bindings exist)
    recent_searches,  \* per engine: self.recent_searches
    report,           \* per engine: what the last fetch told its caller
    changed,          \* per engine: the last call left recent_searches other than it found it
    sent_keys,        \* per engine: the `key` params of the requests handed to requests.get
    nfetch,           \* per engine: number of calls of get_weather so far
    last_city,        \* per engine: the local `city` of the last call
    last_svc,         \* per engine: what the service answered to the last call
    nsucc,            \* per engine: number of fetches that ended with a record
    succ_recent,      \* per engine: the last records so returned, newest first
    shown,            \* per engine: what each history read since the last fetch showed
    frames,           \* window program: the calls of get_weather that have begun and not ended, innermost last
    pending,          \* window program: the Search clicks and Return keys Tk has queued
    started,          \* window program: number of calls of get_weather that have begun
    stored_ids        \* window program: the calls that appended a record, in the order they did

vars == <<api_key, phase, instance, ui_built, recent_searches, report,
          changed, sent_keys, nfetch, last_city, last_svc, nsucc, succ_recent,
          shown, frames, pending, started, stored_ids>>

\* the state of the window program's event loop
Loop == <<frames, pending, started, stored_ids>>

FrontEnds == {"console", "gui"}

(***************************************************************************)
(* Bounds of the model.                                                    *)
(***************************************************************************)
\* calls of get_weather per engine, with every answer of the service possible
MaxFetches == 3

\* calls of get_weather per engine, with the answers of HistoryServices
MaxHistoryFetches == 7

\* calls of get_weather per engine when both programs run side by side
MaxPairFetches == 2

\* history reads per engine between two fetches
MaxReads == 2

\* calls of get_weather in a run of the window program's event loop
MaxWindowFetches == 3

\* Search clicks and Return keys waiting in Tk's queue
MaxPending == 2

\* capacity of the recent list: "if len(self.recent_searches) > 5"
HistoryCapacity == 5

\* status recognised as "unknown location": "response.status_code == 400"
BadRequestStatus == 400

(***************************************************************************)
(* Text: a city name or a line of user input is a sequence of characters.  *)
(***************************************************************************)
Whitespace == {" "}

RECURSIVE LStrip(_)
LStrip(s) ==
    IF s # <<>> /\ Head(s) \in Whitespace THEN LStrip(Tail(s)) ELSE s

RECURSIVE RStrip(_)
RStrip(s) ==
    IF s # <<>> /\ s[Len(s)] \in Whitespace
    THEN RStrip(SubSeq(s, 1, Len(s) - 1))
    ELSE s

\* str.strip()
Strip(s) == RStrip(LStrip(s))

LowerChar(c) ==
    CASE c = "Q" -> "q"
      [] c = "U" -> "u"
      [] c = "I" -> "i"
      [] c = "T" -> "t"
      [] c = "A" -> "a"
      [] OTHER -> c

\* str.lower()
Lower(s) == [i \in 1..Len(s) |-> LowerChar(s[i])]

QuitWord == <<"q", "u", "i", "t">>
HistoryWord == <<"h", "i", "s", "t", "o", "r", "y">>

\* the city names a caller may pass
Cities == { <<>>, <<" ">>, <<"a">>, <<"b", " ">> }

\* the lines a console user may type
UserInputs == { <<" ">>, <<"b", " ">>, <<"Q", "u", "I", "T">>, HistoryWord }

(***************************************************************************)
(* The service's answers.                                                  *)
(***************************************************************************)
KeyPaths ==
    { "location", "location.name", "location.country",
      "current", "current.temp_c", "current.feelslike_c",
      "current.condition", "current.condition.text", "current.condition.icon",
      "current.humidity", "current.wind_kph", "current.last_updated_epoch" }

\* the keys the spec requires (section 6): all but the icon
RequiredKeys == KeyPaths \ {"current.condition.icon"}

Parent(k) ==
    CASE k \in {"location", "current"} -> "root"
      [] k \in {"location.name", "location.country"} -> "location"
      [] k \in {"current.condition.text", "current.condition.icon"} -> "current.condition"
      [] OTHER -> "current"

\* k itself and every key nested under it
Under(k) == {k} \cup { j \in KeyPaths : Parent(j) = k \/ (Parent(j) # "root" /\ Parent(Parent(j)) = k) }

\* location names the service answers with
Names == {"A", "B"}

\* A parsed body: kind "object" is a JSON object holding the keys in `keys`;
\* the keys in `bad` hold a value of the wrong type (null where an object,
\* a number or a string is expected); kind "array" is JSON that is no
\* object; kind "notjson" does not parse.
\* `vals` holds the values of the leaf keys: temperatures and wind_kph in
\* tenths, humidity as an integer, the rest as text.
Vals(country, temp_c, feelslike_c, text, humidity, wind_kph, epoch) ==
    [country |-> country, temp_c |-> temp_c, feelslike_c |-> feelslike_c,
     text |-> text, humidity |-> humidity, wind_kph |-> wind_kph, epoch |-> epoch]

\* temp_c 18.0, feelslike_c 17.0, humidity 60, wind_kph 10.8
DefaultVals == Vals("France", 180, 170, "Clear", 60, 108, "1700000000")

\* other values: a humidity above 100 with a wind whose quotient by 3.6 does
\* not end, and a humidity below 0 with no wind
OtherVals ==
    { Vals("Norway", -50, -120, "Snow", 150, 100, "1700003600"),
      Vals("Chile", 305, 330, "Sunny", -5, 0, "1700007200") }

ValidBody(n) ==
    [kind |-> "object", keys |-> KeyPaths, bad |-> {}, name |-> n, vals |-> DefaultVals]

WithVals(b, v) == [b EXCEPT !.vals = v]

Without(b, k) == [b EXCEPT !.keys = @ \ Under(k), !.bad = @ \ Under(k)]

IllTyped(b, k) ==
    [b EXCEPT !.keys = (@ \ Under(k)) \cup {k}, !.bad = (@ \ Under(k)) \cup {k},
              !.vals = IF k = "current.last_updated_epoch"
                       THEN [@ EXCEPT !.epoch = "null"] ELSE @]

NotJson == [kind |-> "notjson", keys |-> {}, bad |-> {}, name |-> "A", vals |-> DefaultVals]
JsonArray == [kind |-> "array", keys |-> {}, bad |-> {}, name |-> "A", vals |-> DefaultVals]

Bodies ==
    { ValidBody(n) : n \in Names }
    \cup { WithVals(ValidBody("B"), v) : v \in OtherVals }
    \cup { Without(ValidBody("A"), k) : k \in KeyPaths }
    \cup { IllTyped(ValidBody("A"), k) :
             k \in {"location", "current", "current.condition",
                    "current.wind_kph", "current.last_updated_epoch"} }
    \cup { IllTyped(Without(ValidBody("A"), "current.last_updated_epoch"),
                    "current.wind_kph") }
    \cup { NotJson, JsonArray }

\* what requests.get does: raise `exc`, or return a response.  An HTTPError
\* raised by the call itself comes from a transport that raises it (an
\* adapter, a hook, a simulated transport); KeyboardInterrupt is Ctrl+C while
\* the call blocks.
TransportErrors ==
    { "requests.ConnectionError", "requests.ConnectTimeout",
      "requests.ReadTimeout", "requests.HTTPError",
      "requests.TooManyRedirects", "KeyboardInterrupt" }

\* the answers that matter to the recent list: two records, a record whose
\* timestamp cannot be rendered, a failure before any record is built
HistoryServices ==
    { [exc |-> "none", status |-> 200, body |-> ValidBody(n)] : n \in Names }
    \cup { [exc |-> "none", status |-> 200,
            body |-> IllTyped(ValidBody("A"), "current.last_updated_epoch")],
          [exc |-> "requests.ConnectionError", status |-> 0, body |-> NotJson] }

HistoryCities == { <<"a">> }

HistoryInputs == { <<"a", " ">>, <<"Q", "u", "I", "T">>, HistoryWord }

Services ==
    { [exc |-> e, status |-> 0, body |-> NotJson] : e \in TransportErrors }
    \cup { [exc |-> "none", status |-> 200, body |-> b] : b \in Bodies }
    \cup { [exc |-> "none", status |-> s, body |-> NotJson] : s \in {304, 400, 404, 500} }

(***************************************************************************)
(* Python's exception classes: the classes an exception is an instance of. *)
(***************************************************************************)
Ancestors(e) ==
    CASE e = "requests.ConnectionError" ->
            {"requests.ConnectionError", "requests.RequestException", "OSError", "Exception"}
      [] e = "requests.ConnectTimeout" ->
            {"requests.ConnectTimeout", "requests.ConnectionError", "requests.Timeout",
             "requests.RequestException", "OSError", "Exception"}
      [] e = "requests.ReadTimeout" ->
            {"requests.ReadTimeout", "requests.Timeout",
             "requests.RequestException", "OSError", "Exception"}
      [] e = "requests.HTTPError" ->
            {"requests.HTTPError", "requests.RequestException", "OSError", "Exception"}
      [] e = "requests.TooManyRedirects" ->
            {"requests.TooManyRedirects", "requests.RequestException", "OSError", "Exception"}
      [] e = "requests.JSONDecodeError" ->
            {"requests.JSONDecodeError", "requests.InvalidJSONError",
             "json.JSONDecodeError", "ValueError",
             "requests.RequestException", "OSError", "Exception"}
      [] e = "KeyError" -> {"KeyError", "LookupError", "Exception"}
      [] e = "TypeError" -> {"TypeError", "Exception"}
      [] e = "KeyboardInterrupt" -> {"KeyboardInterrupt", "BaseException"}
      [] OTHER -> {e, "Exception"}

\* the first "except" clause, in textual order, that catches e; "none" when
\* no clause does and e leaves the try statement
RECURSIVE FirstHandler(_, _)
FirstHandler(e, clauses) ==
    IF clauses = <<>> THEN "none"
    ELSE IF Head(clauses) \in Ancestors(e) THEN Head(clauses)
    ELSE FirstHandler(e, Tail(clauses))

(***************************************************************************)
(* WeatherData and _process_weather_data.                                  *)
(***************************************************************************)
\* WeatherData.__init__: every argument is stored as it is given.  A wind
\* speed is the fraction num/den; timestamp "null" is a last_updated_epoch
\* that datetime.fromtimestamp rejects; icon_url is "None" when the record
\* has none.
WeatherData(city, country, temp, feels_like, description, humidity, wind_speed, timestamp, icon_url) ==
    [city |-> city, country |-> country, temperature |-> temp,
     feels_like |-> feels_like, description |-> description,
     humidity |-> humidity, wind_speed |-> wind_speed,
     timestamp |-> timestamp, icon_url |-> icon_url]

Fraction(num, den) == [num |-> num, den |-> den]

NoData == WeatherData("", "", 0, 0, "", 0, Fraction(0, 1), "", "")

\* wind_kph / 3.6 rounded to one decimal, as __str__ prints it
KphToMps_Rounded(kph) == Fraction((kph * 10 + 18) \div 36, 10)

\* current['wind_kph'] / 3.6, with wind_kph in tenths: kph/10 divided by 36/10
KphToMps(kph) == Fraction(kph, 36)

\* the subscripts of _process_weather_data, in the order they are evaluated;
\* use "arith" marks a value that is used in an arithmetic or string operation
WeatherApp_steps ==
    << [key |-> "location", use |-> "get"],
       [key |-> "current", use |-> "get"],
       [key |-> "location.name", use |-> "get"],
       [key |-> "location.country", use |-> "get"],
       [key |-> "current.temp_c", use |-> "get"],
       [key |-> "current.feelslike_c", use |-> "get"],
       [key |-> "current.condition", use |-> "get"],
       [key |-> "current.condition.text", use |-> "get"],
       [key |-> "current.humidity", use |-> "get"],
       [key |-> "current.wind_kph", use |-> "arith"],
       [key |-> "current.last_updated_epoch", use |-> "get"] >>

WeatherAppGUI_steps ==
    WeatherApp_steps \o << [key |-> "current.condition.icon", use |-> "arith"] >>

\* what one subscript raises: subscripting a value that is no dict is a
\* TypeError, a missing key a KeyError, arithmetic on a wrong type a TypeError
StepError(data, st) ==
    IF Parent(st.key) = "root" /\ data.kind # "object" THEN "TypeError"
    ELSE IF Parent(st.key) # "root" /\ Parent(st.key) \in data.bad THEN "TypeError"
    ELSE IF st.key \notin data.keys THEN "KeyError"
    ELSE IF st.use = "arith" /\ st.key \in data.bad THEN "TypeError"
    ELSE "none"

RECURSIVE FirstError(_, _)
FirstError(data, steps) ==
    IF steps = <<>> THEN "none"
    ELSE LET e == StepError(data, Head(steps))
         IN  IF e # "none" THEN e ELSE FirstError(data, Tail(steps))

\* "except KeyError as e: raise KeyError(...)": a KeyError is raised again as
\* a KeyError, anything else passes through
Reraise(e) == IF "KeyError" \in Ancestors(e) THEN "KeyError" ELSE e

\* timestamp = current['last_updated_epoch']
TimestampOf(data) == data.vals.epoch

\* the record of a body, with the icon reference the engine gives it
Build(data, icon_url) ==
    WeatherData(data.name, data.vals.country, data.vals.temp_c,
                data.vals.feelslike_c, data.vals.text, data.vals.humidity,
                KphToMps(data.vals.wind_kph), TimestampOf(data), icon_url)

WeatherApp_process_weather_data(data) ==
    LET e == FirstError(data, WeatherApp_steps)
    IN  IF e # "none"
        THEN [exc |-> Reraise(e), obj |-> NoData]
        ELSE [exc |-> "none",
              obj |-> Build(data, "None")]

WeatherAppGUI_process_weather_data(data) ==
    LET e == FirstError(data, WeatherAppGUI_steps)
    IN  IF e # "none"
        THEN [exc |-> Reraise(e), obj |-> NoData]
        ELSE [exc |-> "none",
              obj |-> Build(data, "https:icon")]

(***************************************************************************)
(* The recent list.                                                        *)
(***************************************************************************)
\* self.recent_searches.append(obj); if len(...) > 5: self.recent_searches.pop(0)
Store(h, obj) ==
    LET a == Append(h, obj)
    IN  IF Len(a) > HistoryCapacity THEN Tail(a) ELSE a

\* reversed(self.recent_searches): the list as the history views walk it
RECURSIVE Reversed(_)
Reversed(s) ==
    IF s = <<>> THEN <<>> ELSE Append(Reversed(Tail(s)), Head(s))

(***************************************************************************)
(* The history views.  A view is what the read puts on the screen: a note  *)
(* (the message or the heading), the lines in the order written, and the   *)
(* exception that ended the read, "none" when it ran to its end.           *)
(***************************************************************************)
View(note, items, error) == [note |-> note, items |-> items, error |-> error]

\* datetime.fromtimestamp(ts).strftime('%Y-%m-%d %H:%M'), in UTC
FormatTimestamp(ts) ==
    CASE ts = "1700000000" -> "2023-11-14 22:13"
      [] ts = "1700003600" -> "2023-11-14 23:13"
      [] ts = "1700007200" -> "2023-11-15 00:13"
      [] OTHER -> "raises"

\* "{i}. {city}, {country}: {temperature}°C, {description}"; the place of
\* the line in the view is its number i
ConsoleLine(w) ==
    [city |-> w.city, country |-> w.country, temperature |-> w.temperature,
     description |-> w.description]

\* "{i}. {date_time} - {city}, {country}: {temperature}°C, {description}"
WindowLine(w) ==
    [date_time |-> FormatTimestamp(w.timestamp), city |-> w.city,
     country |-> w.country, temperature |-> w.temperature,
     description |-> w.description]

\* the loop of show_history over s: it inserts a line for each record until
\* fromtimestamp raises
RECURSIVE WindowLines(_)
WindowLines(s) ==
    IF s = <<>> \/ FormatTimestamp(Head(s).timestamp) = "raises"
    THEN <<>>
    ELSE <<WindowLine(Head(s))>> \o WindowLines(Tail(s))

\* a read that reverses the list in place before it walks it
WeatherApp_show_recent_searches_InPlace(h) ==
    [list |-> Reversed(h),
     view |-> IF h = <<>>
              THEN View("No recent searches.", <<>>, "none")
              ELSE View("RECENT SEARCHES",
                        [i \in 1..Len(h) |-> ConsoleLine(Reversed(h)[i])], "none")]

\* WeatherApp.show_recent_searches on the list h: the list it leaves and
\* the view it prints
WeatherApp_show_recent_searches(h) ==
    [list |-> h,
     view |-> IF h = <<>>
              THEN View("No recent searches.", <<>>, "none")
              ELSE View("RECENT SEARCHES",
                        [i \in 1..Len(h) |-> ConsoleLine(Reversed(h)[i])], "none")]

\* WeatherAppGUI.show_history on the list h: the list it leaves and the view
\* it builds; a record whose timestamp fromtimestamp rejects ends the loop
\* with the exception, which Tk reports, and leaves the lines written so far
WeatherAppGUI_show_history(h) ==
    [list |-> h,
     view |-> IF h = <<>>
              THEN View("No recent searches.", <<>>, "none")
              ELSE View("Recent Searches", WindowLines(Reversed(h)),
                        IF \E i \in 1..Len(h) : FormatTimestamp(h[i].timestamp) = "raises"
                        THEN "TypeError" ELSE "none")]

(***************************************************************************)
(* get_weather: the try body, then the except clauses.                     *)
(***************************************************************************)
\* response.raise_for_status(): an HTTPError for a 4xx or 5xx status
RaisesForStatus(status) == status >= 400 /\ status < 600

\* The outcome of the try body: the exception that leaves it ("none" when it
\* runs to its end), whether the local `response` is bound by then, the
\* recent list as the body leaves it, and the record.
Thrown(e, bound, h) == [exc |-> e, response |-> bound, hist |-> h, obj |-> NoData]

\* str(weather_obj) in the console, display_weather_data in the window: both
\* call datetime.fromtimestamp(timestamp)
RenderError(obj) ==
    IF FormatTimestamp(obj.timestamp) = "raises" THEN "TypeError" ELSE "none"

TryBody(h, svc, p) ==
    IF svc.exc # "none" THEN Thrown(svc.exc, FALSE, h)
    ELSE IF RaisesForStatus(svc.status) THEN Thrown("requests.HTTPError", TRUE, h)
    ELSE IF svc.body.kind = "notjson" THEN Thrown("requests.JSONDecodeError", TRUE, h)
    ELSE IF p.exc # "none" THEN Thrown(p.exc, TRUE, h)
    ELSE IF RenderError(p.obj) # "none"
         THEN Thrown(RenderError(p.obj), TRUE, Store(h, p.obj))
    ELSE [exc |-> "none", response |-> TRUE, hist |-> Store(h, p.obj), obj |-> p.obj]

\* what a fetch tells its caller
Report(kind, error_type, city, message, obj) ==
    [kind |-> kind, error_type |-> error_type, city |-> city,
     message |-> message, obj |-> obj]

NoReport == Report("none", "", <<>>, "", NoData)

ErrorReport(error_type, city, message) ==
    Report("error", error_type, city, message, NoData)

\* an exception that leaves get_weather
Raised(e) == Report("raised", e, <<>>, "", NoData)

\* the clauses with "except Timeout" moved above "except ConnectionError"
WeatherApp_clauses_TimeoutFirst ==
    << "requests.Timeout", "requests.ConnectionError", "requests.HTTPError",
       "json.JSONDecodeError", "KeyError", "Exception" >>

WeatherApp_clauses ==
    << "requests.ConnectionError", "requests.Timeout", "requests.HTTPError",
       "json.JSONDecodeError", "KeyError", "Exception" >>

WeatherAppGUI_clauses ==
    << "requests.ConnectionError", "requests.Timeout", "requests.HTTPError",
       "json.JSONDecodeError", "KeyError", "Exception" >>

\* the except clauses of WeatherApp.get_weather
WeatherApp_handle(t, city, svc) ==
    LET c == FirstHandler(t.exc, WeatherApp_clauses)
    IN  CASE c = "requests.ConnectionError" -> ErrorReport("CONNECTION", <<>>, "no_connection")
          [] c = "requests.Timeout" -> ErrorReport("TIMEOUT", <<>>, "timed_out")
          [] c = "requests.HTTPError" ->
                IF ~t.response THEN Raised("UnboundLocalError")
                ELSE IF svc.status = BadRequestStatus
                     THEN ErrorReport("SEARCH", city, "not_found")
                     ELSE ErrorReport("HTTP", <<>>, "http_err")
          [] c = "json.JSONDecodeError" -> ErrorReport("DATA", <<>>, "invalid_data")
          [] c = "KeyError" -> ErrorReport("DATA", <<>>, "key_err")
          [] c = "Exception" -> ErrorReport("UNEXPECTED", <<>>, "err")
          [] OTHER -> Raised(t.exc)

\* the except clauses of WeatherAppGUI.get_weather
WeatherAppGUI_handle(t, city, svc) ==
    LET c == FirstHandler(t.exc, WeatherAppGUI_clauses)
    IN  CASE c = "requests.ConnectionError" -> ErrorReport("CONNECTION ERROR", <<>>, "no_connection")
          [] c = "requests.Timeout" -> ErrorReport("TIMEOUT ERROR", <<>>, "timed_out")
          [] c = "requests.HTTPError" ->
                IF ~t.response THEN Raised("UnboundLocalError")
                ELSE IF svc.status = BadRequestStatus
                     THEN ErrorReport("SEARCH ERROR", city, "not_found")
                     ELSE ErrorReport("SEARCH ERROR", <<>>, "http_err")
          [] c = "json.JSONDecodeError" -> ErrorReport("DATA ERROR", <<>>, "invalid_data")
          [] c = "KeyError" -> ErrorReport("DATA ERROR", <<>>, "key_err")
          [] c = "Exception" -> ErrorReport("UNEXPECTED ERROR", <<>>, "err")
          [] OTHER -> Raised(t.exc)

\* The result of one call: the recent list, the report, and the params of
\* the requests it handed to requests.get
Outcome(h, r, reqs) == [hist |-> h, report |-> r, requests |-> reqs]

\* params = {'q': city, 'key': self.api_key}
Params(city, key) == [q |-> city, key |-> key]

\* WeatherApp.get_weather(city) on an engine whose recent list is h
WeatherApp_get_weather(h, city, key, svc) ==
    LET t == TryBody(h, svc, WeatherApp_process_weather_data(svc.body))
    IN  IF t.exc = "none"
        THEN Outcome(t.hist, Report("returned", "", <<>>, "", t.obj), {Params(city, key)})
        ELSE Outcome(t.hist, WeatherApp_handle(t, city, svc), {Params(city, key)})

\* WeatherAppGUI.get_weather() with `text` in the entry box
WeatherAppGUI_get_weather(h, text, key, svc) ==
    LET city == Strip(text)
        t == TryBody(h, svc, WeatherAppGUI_process_weather_data(svc.body))
    IN  IF city = <<>>
        THEN Outcome(h, Report("warning", "Input Error", <<>>, "enter_city", NoData), {})
        ELSE IF t.exc = "none"
        THEN Outcome(t.hist, Report("returned", "", <<>>, "", t.obj), {Params(city, key)})
        ELSE Outcome(t.hist, WeatherAppGUI_handle(t, city, svc), {Params(city, key)})

(***************************************************************************)
(* The state machine.  A behaviour is one run of one program (Init) or of  *)
(* both programs side by side (InitPair).                                  *)
(***************************************************************************)
\* the newest n elements of a newest-first list
Newest(s, n) == IF Len(s) > n THEN SubSeq(s, 1, n) ELSE s

NoService == [exc |-> "none", status |-> 0, body |-> NotJson]

\* the state after get_weather, called on engine fe with `city` and answered
\* `svc`, ended with outcome o
Apply(fe, city, svc, o) ==
    /\ recent_searches' = [recent_searches EXCEPT ![fe] = o.hist]
    /\ report' = [report EXCEPT ![fe] = o.report]
    /\ changed' = [changed EXCEPT ![fe] = (o.hist # recent_searches[fe])]
    /\ sent_keys' = [sent_keys EXCEPT ![fe] = @ \cup { r.key : r \in o.requests }]
    /\ nfetch' = [nfetch EXCEPT ![fe] = @ + 1]
    /\ last_city' = [last_city EXCEPT ![fe] = city]
    /\ last_svc' = [last_svc EXCEPT ![fe] = svc]
    /\ nsucc' = [nsucc EXCEPT ![fe] = IF o.report.kind = "returned" THEN @ + 1 ELSE @]
    /\ succ_recent' =
          [succ_recent EXCEPT ![fe] =
              IF o.report.kind = "returned"
              THEN Newest(<<o.report.obj>> \o @, 5)
              ELSE @]
    /\ shown' = [shown EXCEPT ![fe] = IF o.requests = {} THEN @ ELSE <<>>]

Engine == <<recent_searches, report, changed, sent_keys, nfetch, last_city,
            last_svc, nsucc, succ_recent, shown>>

\* the state after a history read on engine fe that ended as r
Read(fe, r) ==
    /\ recent_searches' = [recent_searches EXCEPT ![fe] = r.list]
    /\ shown' = [shown EXCEPT ![fe] = Append(@, r.view)]
    /\ UNCHANGED <<report, changed, sent_keys, nfetch, last_city, last_svc,
                   nsucc, succ_recent>>

InitEngines ==
    /\ instance = [fe \in FrontEnds |-> FALSE]
    /\ ui_built = FALSE
    /\ recent_searches = [fe \in FrontEnds |-> <<>>]
    /\ report = [fe \in FrontEnds |-> NoReport]
    /\ changed = [fe \in FrontEnds |-> FALSE]
    /\ sent_keys = [fe \in FrontEnds |-> {}]
    /\ nfetch = [fe \in FrontEnds |-> 0]
    /\ last_city = [fe \in FrontEnds |-> <<>>]
    /\ last_svc = [fe \in FrontEnds |-> NoService]
    /\ nsucc = [fe \in FrontEnds |-> 0]
    /\ succ_recent = [fe \in FrontEnds |-> <<>>]
    /\ shown = [fe \in FrontEnds |-> <<>>]
    /\ frames = <<>>
    /\ pending = <<>>
    /\ started = 0
    /\ stored_ids = <<>>

Init ==
    /\ api_key \in {"", "k"}
    /\ \E p \in FrontEnds : phase = [fe \in FrontEnds |-> IF fe = p THEN "start" ELSE "off"]
    /\ InitEngines

\* WeatherApp.__init__ as main() calls it: without a key the ValueError
\* leaves main() and the process ends
WeatherApp_init ==
    /\ phase["console"] = "start"
    /\ IF api_key = ""
       THEN /\ phase' = [phase EXCEPT !["console"] = "aborted"]
            /\ UNCHANGED instance
       ELSE /\ phase' = [phase EXCEPT !["console"] = "running"]
            /\ instance' = [instance EXCEPT !["console"] = TRUE]
    /\ UNCHANGED <<api_key, ui_built, Engine, Loop>>

\* WeatherAppGUI.__init__ as main() calls it, up to root.mainloop(): without
\* a key __init__ shows the message, calls root.quit() and returns, so main()
\* holds the object, without recent_searches and without widgets, and goes
\* on to root.mainloop()
WeatherAppGUI_init ==
    /\ phase["gui"] = "start"
    /\ phase' = [phase EXCEPT !["gui"] = "mainloop"]
    /\ instance' = [instance EXCEPT !["gui"] = TRUE]
    /\ ui_built' = (api_key # "")
    /\ UNCHANGED <<api_key, Engine, Loop>>

\* a caller invokes WeatherApp.get_weather(city) on the engine
WeatherApp_get_weather_call(city, svc, limit) ==
    /\ phase["console"] = "running"
    /\ instance["console"]
    /\ nfetch["console"] < limit
    /\ Apply("console", city, svc,
             WeatherApp_get_weather(recent_searches["console"], city, api_key, svc))
    /\ UNCHANGED <<api_key, phase, instance, ui_built, Loop>>

\* one turn of the loop of main(): read a line, strip it, dispatch on it
WeatherApp_main_loop(user_input, answers, limit) ==
    LET line == Strip(user_input)
    IN  /\ phase["console"] = "running"
        /\ IF line = <<>>
           THEN UNCHANGED <<phase, Engine>>
           ELSE IF Lower(line) = QuitWord
           THEN /\ phase' = [phase EXCEPT !["console"] = "exited"]
                /\ UNCHANGED Engine
           ELSE IF Lower(line) = HistoryWord
           THEN /\ Len(shown["console"]) < MaxReads
                /\ Read("console",
                        WeatherApp_show_recent_searches(recent_searches["console"]))
                /\ UNCHANGED phase
           ELSE /\ nfetch["console"] < limit
                /\ \E svc \in answers :
                     Apply("console", line, svc,
                           WeatherApp_get_weather(recent_searches["console"], line,
                                                  api_key, svc))
                /\ UNCHANGED phase
        /\ UNCHANGED <<api_key, instance, ui_built, Loop>>

\* the Search button or the Return key: WeatherAppGUI.get_weather()
WeatherAppGUI_get_weather_event(text, svc, limit) ==
    /\ phase["gui"] = "mainloop"
    /\ ui_built
    /\ nfetch["gui"] < limit
    /\ Apply("gui", Strip(text), svc,
             WeatherAppGUI_get_weather(recent_searches["gui"], text, api_key, svc))
    /\ UNCHANGED <<api_key, phase, instance, ui_built, Loop>>

\* the History button: WeatherAppGUI.show_history()
WeatherAppGUI_show_history_event ==
    /\ phase["gui"] = "mainloop"
    /\ ui_built
    /\ Len(shown["gui"]) < MaxReads
    /\ Read("gui", WeatherAppGUI_show_history(recent_searches["gui"]))
    /\ UNCHANGED <<api_key, phase, instance, ui_built, Loop>>

Next ==
    \/ WeatherApp_init
    \/ WeatherAppGUI_init
    \/ \E city \in Cities, svc \in Services :
          WeatherApp_get_weather_call(city, svc, MaxFetches)
    \/ \E user_input \in UserInputs :
          WeatherApp_main_loop(user_input, Services, MaxFetches)
    \/ \E text \in Cities, svc \in Services :
          WeatherAppGUI_get_weather_event(text, svc, MaxFetches)
    \/ WeatherAppGUI_show_history_event

Spec == Init /\ [][Next]_vars

(***************************************************************************)
(* The same programs over more fetches and fewer answers, so that the      *)
(* recent list fills and evicts.                                           *)
(***************************************************************************)
NextHistory ==
    \/ WeatherApp_init
    \/ WeatherAppGUI_init
    \/ \E city \in HistoryCities, svc \in HistoryServices :
          WeatherApp_get_weather_call(city, svc, MaxHistoryFetches)
    \/ \E user_input \in HistoryInputs :
          WeatherApp_main_loop(user_input, HistoryServices, MaxHistoryFetches)
    \/ \E text \in HistoryCities, svc \in HistoryServices :
          WeatherAppGUI_get_weather_event(text, svc, MaxHistoryFetches)
    \/ WeatherAppGUI_show_history_event

SpecHistory == Init /\ [][NextHistory]_vars

(***************************************************************************)
(* Both programs side by side, fed the same city and the same answer.      *)
(***************************************************************************)
InitPair ==
    /\ api_key \in {"", "k"}
    /\ phase = [fe \in FrontEnds |-> "start"]
    /\ InitEngines

PairInit ==
    /\ phase["console"] = "start"
    /\ phase["gui"] = "start"
    /\ phase' = [fe \in FrontEnds |->
                    IF fe = "gui" THEN "mainloop"
                    ELSE IF api_key = "" THEN "aborted" ELSE "running"]
    /\ instance' = [fe \in FrontEnds |-> fe = "gui" \/ api_key # ""]
    /\ ui_built' = (api_key # "")
    /\ UNCHANGED <<api_key, Engine, Loop>>

ApplyBoth(city, svc, oc, og) ==
    LET o == [fe \in FrontEnds |-> IF fe = "console" THEN oc ELSE og]
    IN  /\ recent_searches' = [fe \in FrontEnds |-> o[fe].hist]
        /\ report' = [fe \in FrontEnds |-> o[fe].report]
        /\ changed' = [fe \in FrontEnds |-> o[fe].hist # recent_searches[fe]]
        /\ sent_keys' = [fe \in FrontEnds |->
                            sent_keys[fe] \cup { r.key : r \in o[fe].requests }]
        /\ nfetch' = [fe \in FrontEnds |-> nfetch[fe] + 1]
        /\ last_city' = [fe \in FrontEnds |-> IF fe = "gui" THEN Strip(city) ELSE city]
        /\ last_svc' = [fe \in FrontEnds |-> svc]
        /\ nsucc' = [fe \in FrontEnds |->
                        IF o[fe].report.kind = "returned" THEN nsucc[fe] + 1 ELSE nsucc[fe]]
        /\ succ_recent' =
              [fe \in FrontEnds |->
                  IF o[fe].report.kind = "returned"
                  THEN Newest(<<o[fe].report.obj>> \o succ_recent[fe], 5)
                  ELSE succ_recent[fe]]
        /\ UNCHANGED shown

PairFetch(city, svc) ==
    /\ phase["console"] = "running"
    /\ phase["gui"] = "mainloop"
    /\ ui_built
    /\ nfetch["console"] < MaxPairFetches
    /\ ApplyBoth(city, svc,
                 WeatherApp_get_weather(recent_searches["console"], city, api_key, svc),
                 WeatherAppGUI_get_weather(recent_searches["gui"], city, api_key, svc))
    /\ UNCHANGED <<api_key, phase, instance, ui_built, Loop>>

\* the cities that reach get_weather in both programs: stripped and not empty
PairCities == { Strip(c) : c \in Cities } \ { <<>> }

NextPair ==
    \/ PairInit
    \/ \E city \in PairCities, svc \in Services : PairFetch(city, svc)

SpecPair == InitPair /\ [][NextPair]_vars

(***************************************************************************)
(* The window program's event loop, with get_weather in the steps between  *)
(* which Tk may run another handler.  root.update() runs the handlers of   *)
(* every queued event before it returns; get_weather calls it through      *)
(* display_status_message before the request, once more after the loading  *)
(* label, and through display_status_message or display_error after the    *)
(* try statement.  Neither the Search button nor the Return binding is      *)
(* ever disabled.                                                          *)
(***************************************************************************)
\* the answers of the service in these runs
WindowServices ==
    { [exc |-> "none", status |-> 200, body |-> ValidBody(n)] : n \in Names }
    \cup { [exc |-> "requests.ConnectionError", status |-> 0, body |-> NotJson] }

\* what the entry box holds when a queued Search or Return is handled
WindowTexts == { <<" ">>, <<"a">>, <<"b", " ">> }

\* the positions of get_weather at which it is inside root.update()
UpdatePoints == {"status", "loading", "final"}

Frame(id, text, pc) == [id |-> id, text |-> text, pc |-> pc]

Top == frames[Len(frames)]

Pop == SubSeq(frames, 1, Len(frames) - 1)

\* Tk is handling events: in root.mainloop() with no handler running, or in
\* the root.update() of the innermost get_weather
HandlingEvents ==
    /\ phase["gui"] = "mainloop"
    /\ ui_built
    /\ IF frames = <<>> THEN TRUE ELSE Top.pc \in UpdatePoints

InitWindow ==
    /\ api_key \in {"", "k"}
    /\ phase = [fe \in FrontEnds |-> IF fe = "gui" THEN "start" ELSE "off"]
    /\ InitEngines

\* the user clicks Search or presses Return: Tk queues the event
User_search(text) ==
    /\ phase["gui"] = "mainloop"
    /\ ui_built
    /\ Len(pending) < MaxPending
    /\ started + Len(pending) < MaxWindowFetches
    /\ pending' = Append(pending, text)
    /\ UNCHANGED <<api_key, phase, instance, ui_built, Engine, frames, started,
                   stored_ids>>

\* Tk takes the first queued event and calls get_weather, which runs up to
\* the root.update() of its first display_status_message; on an empty city it
\* warns and returns
WeatherAppGUI_get_weather_begin ==
    /\ HandlingEvents
    /\ pending # <<>>
    /\ pending' = Tail(pending)
    /\ IF Strip(Head(pending)) = <<>>
       THEN /\ Apply("gui", <<>>, NoService,
                     WeatherAppGUI_get_weather(recent_searches["gui"], Head(pending),
                                               api_key, NoService))
            /\ UNCHANGED frames
       ELSE /\ frames' = Append(frames, Frame(started + 1, Head(pending), "status"))
            /\ UNCHANGED Engine
    /\ started' = started + 1
    /\ UNCHANGED <<api_key, phase, instance, ui_built, stored_ids>>

\* root.update() finds the queue empty and returns: get_weather goes on to
\* its next statement, or returns after the last one
WeatherAppGUI_update_returns ==
    /\ phase["gui"] = "mainloop"
    /\ frames # <<>>
    /\ Top.pc \in UpdatePoints
    /\ pending = <<>>
    /\ frames' = CASE Top.pc = "status" -> Append(Pop, [Top EXCEPT !.pc = "loading"])
                   [] Top.pc = "loading" -> Append(Pop, [Top EXCEPT !.pc = "request"])
                   [] OTHER -> Pop
    /\ UNCHANGED <<api_key, phase, instance, ui_built, Engine, pending, started,
                   stored_ids>>

\* the try statement of get_weather and the except clause it ends in, up to
\* the root.update() of the closing display_status_message; an exception
\* that leaves get_weather ends the call
WeatherAppGUI_get_weather_try(svc) ==
    /\ phase["gui"] = "mainloop"
    /\ frames # <<>>
    /\ Top.pc = "request"
    /\ LET o == WeatherAppGUI_get_weather(recent_searches["gui"], Top.text,
                                          api_key, svc)
       IN  /\ Apply("gui", Strip(Top.text), svc, o)
           /\ stored_ids' = IF o.hist # recent_searches["gui"]
                            THEN Append(stored_ids, Top.id)
                            ELSE stored_ids
           /\ frames' = IF o.report.kind = "raised"
                        THEN Pop
                        ELSE Append(Pop, [Top EXCEPT !.pc = "final"])
    /\ UNCHANGED <<api_key, phase, instance, ui_built, pending, started>>

NextWindow ==
    \/ WeatherAppGUI_init
    \/ \E text \in WindowTexts : User_search(text)
    \/ WeatherAppGUI_get_weather_begin
    \/ WeatherAppGUI_update_returns
    \/ \E svc \in WindowServices : WeatherAppGUI_get_weather_try(svc)

SpecWindow == InitWindow /\ [][NextWindow]_vars

(***************************************************************************)
(* The vocabulary of the properties.                                       *)
(***************************************************************************)
\* the category of the spec that a displayed error type stands for
Category(r) ==
    CASE r.kind # "error" -> "none"
      [] r.error_type \in {"CONNECTION", "CONNECTION ERROR"} -> "Connection"
      [] r.error_type \in {"TIMEOUT", "TIMEOUT ERROR"} -> "Timeout"
      [] r.error_type \in {"SEARCH", "SEARCH ERROR"} -> "Search"
      [] r.error_type \in {"HTTP", "HTTP ERROR"} -> "Http"
      [] r.error_type \in {"DATA", "DATA ERROR"} -> "Data"
      [] r.error_type \in {"UNEXPECTED", "UNEXPECTED ERROR"} -> "Unexpected"
      [] OTHER -> "none"

Categories == {"Connection", "Timeout", "Search", "Http", "Data", "Unexpected"}

\* the last call on engine fe went to the service and ended
Answered(fe) == report[fe].kind \in {"returned", "error", "raised"}

\* the last call on engine fe ended without a record
Failed(fe) == report[fe].kind \in {"error", "raised"}

Min(a, b) == IF a < b THEN a ELSE b

Is2xx(svc) == svc.exc = "none" /\ svc.status >= 200 /\ svc.status < 300

\* a 2xx answer whose body is a JSON object in which a required key is
\* missing from the object that should hold it
LacksRequiredKey(svc) ==
    /\ Is2xx(svc)
    /\ svc.body.kind = "object"
    /\ \E k \in RequiredKeys :
          /\ k \notin svc.body.keys
          /\ \/ Parent(k) = "root"
             \/ (Parent(k) \in svc.body.keys /\ Parent(k) \notin svc.body.bad)

\* a 2xx answer with every required key, well typed, and no icon
CompleteWithoutIcon(svc) ==
    /\ Is2xx(svc)
    /\ svc.body.kind = "object"
    /\ RequiredKeys \subseteq svc.body.keys
    /\ svc.body.bad = {}
    /\ "current.condition.icon" \notin svc.body.keys

IsConnectionFailure(svc) ==
    svc.exc # "none" /\ "requests.ConnectionError" \in Ancestors(svc.exc)

IsTimeout(svc) ==
    svc.exc # "none" /\ "requests.Timeout" \in Ancestors(svc.exc)

\* the fields of the records of a list that both engines keep
Content(h) == [i \in 1..Len(h) |-> [h[i] EXCEPT !.icon_url = ""]]

(***************************************************************************)
(* The properties.                                                         *)
(***************************************************************************)
\* C1: after N fetches that ended with a record, the recent-history view
\* (the recent list reversed) has length min(N, 5) and equals the last
\* min(N, 5) records so returned, newest first; the list never holds more
\* than 5 records.
C1_HistoryIsLastSuccesses ==
    \A fe \in FrontEnds :
        /\ Len(recent_searches[fe]) <= 5
        /\ Len(Reversed(recent_searches[fe])) = Min(nsucc[fe], 5)
        /\ Reversed(recent_searches[fe]) = succ_recent[fe]

\* C2: a fetch that ends in an error category, or without a record at all,
\* leaves the recent list as it found it, whatever step failed.
C2_FailedFetchLeavesHistory ==
    \A fe \in FrontEnds : Failed(fe) => ~changed[fe]

\* C3: a 2xx answer whose body is a JSON object lacking a required key is
\* reported as Data and leaves the recent list unchanged.
C3_MissingKeyIsData ==
    \A fe \in FrontEnds :
        (Answered(fe) /\ LacksRequiredKey(last_svc[fe]))
            => (Category(report[fe]) = "Data" /\ ~changed[fe])

\* C4: every fetch that fails reports exactly one of the six categories and
\* returns normally: no exception leaves get_weather.
C4_ClassificationIsTotal ==
    \A fe \in FrontEnds :
        /\ report[fe].kind # "raised"
        /\ report[fe].kind = "error" => Category(report[fe]) \in Categories

\* C5: a non-2xx answer is reported as Search, naming the requested city,
\* exactly when its status is 400, and as Http otherwise.
C5_SearchIffBadRequest ==
    \A fe \in FrontEnds :
        (Answered(fe) /\ last_svc[fe].exc = "none" /\ ~Is2xx(last_svc[fe]))
            => IF last_svc[fe].status = 400
               THEN Category(report[fe]) = "Search" /\ report[fe].city = last_city[fe]
               ELSE Category(report[fe]) = "Http" /\ report[fe].message = "http_err"

\* C6 as stated: every connection failure is reported as Connection and
\* every timeout as Timeout, a connect-phase timeout included.
C6_ConnectionAndTimeout ==
    \A fe \in FrontEnds :
        Answered(fe) =>
            /\ IsConnectionFailure(last_svc[fe]) => Category(report[fe]) = "Connection"
            /\ IsTimeout(last_svc[fe]) => Category(report[fe]) = "Timeout"

\* C6 as amended: every connection failure, a connect-phase timeout
\* included, is reported as Connection, because the ConnectionError clause
\* is tried first; every timeout that is no connection failure is reported
\* as Timeout.
C6_ConnectionFirst ==
    \A fe \in FrontEnds :
        Answered(fe) =>
            /\ IsConnectionFailure(last_svc[fe]) => Category(report[fe]) = "Connection"
            /\ (IsTimeout(last_svc[fe]) /\ ~IsConnectionFailure(last_svc[fe]))
                  => Category(report[fe]) = "Timeout"

\* a fetch whose request ended in a connect-phase timeout has been reported
\* as Connection and has left the recent list alone
C6_Witness ==
    \E fe \in FrontEnds :
        /\ Answered(fe)
        /\ last_svc[fe].exc = "requests.ConnectTimeout"
        /\ Category(report[fe]) = "Connection"
        /\ ~changed[fe]

\* C7: a 2xx answer with every required field and no icon yields a record
\* without an icon reference, which is appended to the recent list; no error
\* is reported.
C7_MissingIconIsValid ==
    \A fe \in FrontEnds :
        (Answered(fe) /\ CompleteWithoutIcon(last_svc[fe]))
            => /\ report[fe].kind = "returned"
               /\ report[fe].obj.icon_url = "None"
               /\ recent_searches[fe] # <<>>
               /\ recent_searches[fe][Len(recent_searches[fe])] = report[fe].obj

\* C8: fed the same cities and the same answers, the console engine and the
\* window engine report the same outcome and category and hold the same
\* records.
C8_EnginesAgree ==
    /\ report["console"].kind = report["gui"].kind
    /\ Category(report["console"]) = Category(report["gui"])
    /\ Content(recent_searches["console"]) = Content(recent_searches["gui"])

\* C9: a fetch called on the console engine with an empty or whitespace-only
\* city ends in the Search category, whatever the service answers, and
\* leaves the recent list unchanged.
C9_BlankCityIsSearch ==
    (report["console"].kind # "none" /\ Strip(last_city["console"]) = <<>>)
        => (Category(report["console"]) = "Search" /\ ~changed["console"])

\* C10: without an API key construction fails and startup is aborted: no
\* engine object exists, no program reaches its event or input loop, and no
\* request is sent without a key.
C10_NoKeyNoEngine ==
    api_key = "" =>
        \A fe \in FrontEnds :
            /\ ~instance[fe]
            /\ phase[fe] \in {"off", "start", "aborted"}
            /\ "" \notin sent_keys[fe]

\* a 2xx answer whose body is a JSON object holding every required key
HasRequiredKeys(svc) ==
    /\ Is2xx(svc)
    /\ svc.body.kind = "object"
    /\ RequiredKeys \subseteq svc.body.keys

\* obj carries the fields of body b unmodified, and b's wind_kph (tenths of
\* km/h) divided by 3.6 exactly: num/den = wind_kph/36
Verbatim(obj, b) ==
    /\ obj.city = b.name
    /\ obj.country = b.vals.country
    /\ obj.temperature = b.vals.temp_c
    /\ obj.feels_like = b.vals.feelslike_c
    /\ obj.description = b.vals.text
    /\ obj.humidity = b.vals.humidity
    /\ obj.timestamp = b.vals.epoch
    /\ obj.wind_speed.den > 0
    /\ obj.wind_speed.num * 36 = b.vals.wind_kph * obj.wind_speed.den

\* C11: for a 2xx answer with every required field present, the record the
\* fetch produces (the one it returns, the one it stores) has city, country,
\* temperature, feels-like, description, humidity and timestamp equal to the
\* source fields, humidity outside 0..100 included, and a wind speed equal to
\* wind_kph / 3.6 without rounding; the console engine produces such a record
\* whenever the fields are well typed.
C11_RecordIsVerbatim ==
    \A fe \in FrontEnds :
        (Answered(fe) /\ HasRequiredKeys(last_svc[fe])) =>
            /\ report[fe].kind = "returned"
                  => Verbatim(report[fe].obj, last_svc[fe].body)
            /\ changed[fe]
                  => Verbatim(recent_searches[fe][Len(recent_searches[fe])],
                              last_svc[fe].body)
            /\ (fe = "console" /\ last_svc[fe].body.bad = {})
                  => report[fe].kind = "returned"

\* a fetch has returned and stored a record with humidity 150 and the wind
\* speed 10.0 / 3.6, which has no finite decimal expansion
C11_Witness ==
    \E fe \in FrontEnds :
        /\ Answered(fe)
        /\ HasRequiredKeys(last_svc[fe])
        /\ last_svc[fe].body.vals.humidity = 150
        /\ last_svc[fe].body.vals.wind_kph = 100
        /\ report[fe].kind = "returned"
        /\ report[fe].obj.humidity = 150
        /\ report[fe].obj.wind_speed = Fraction(100, 36)
        /\ changed[fe]

\* every history read since the last fetch showed the same view, and on an
\* empty list that view has no line and no error
C12_SameEachTime ==
    \A fe \in FrontEnds :
        \A i \in 1..Len(shown[fe]) :
            /\ shown[fe][i] = shown[fe][1]
            /\ recent_searches[fe] = <<>>
                  => (shown[fe][i].items = <<>> /\ shown[fe][i].error = "none")

\* a step in which engine fe performs a history read
ReadStep(fe) == Len(shown'[fe]) = Len(shown[fe]) + 1

\* C12: a history read leaves the recent list as it is; the reads made with
\* no fetch in between show the same sequence each time; a read on an empty
\* list shows no record and raises nothing.
C12_ReadsLeaveHistory ==
    /\ []C12_SameEachTime
    /\ [][\A fe \in FrontEnds :
             ReadStep(fe) => recent_searches'[fe] = recent_searches[fe]]_vars

\* two reads in a row on a list of at least two different records
C12_Witness ==
    \E fe \in FrontEnds :
        /\ Len(shown[fe]) >= 2
        /\ Len(shown[fe][2].items) >= 2
        /\ shown[fe][2].items[1] # shown[fe][2].items[2]
        /\ shown[fe][2].error = "none"

\* the calls of get_weather in progress on the window engine
InProgress == Len(frames)

\* no fetch begins while another is in progress
C13_NoOverlap == InProgress <= 1

\* the records were stored in the order their fetches began
C13_InOrder ==
    \A i, j \in 1..Len(stored_ids) : i < j => stored_ids[i] < stored_ids[j]

\* C13: on one engine at most one fetch is in progress at any time, a fetch
\* begun from an event handled inside the root.update() of another included,
\* and the records enter the history in the order the fetches were begun.
C13_OneFetchAtATime == C13_NoOverlap /\ C13_InOrder

====
